---------------------------- MODULE Spec2Model ----------------------------
(***************************************************************************)
(* The relay pipeline of the repository: the push path                     *)
(* (YouTubeMonitorPubSub, src/youtube_monitor_pubsub.py), the polling path *)
(* (YouTubeMonitor, src/youtube_monitor.py) and the stages both share      *)
(* (download_video, split_video, upload_part_worker).                      *)
(*                                                                         *)
(* A runner is one execution context that can carry a pipeline job: a      *)
(* notification handler task of the push path, <<"push", h>>, or the       *)
(* per-channel thread of a polling cycle, <<"poll", c>>.                   *)
(***************************************************************************)
EXTENDS Integers, Sequences, FiniteSets, TLC

(* ------------------------------ bounds -------------------------------- *)
NumItems == 2
NumChannels == 2
NumHandlers == 2
MaxParts == 2
MaxNotifications == 3
MaxCycles == 2
BothNotifications == 2
BothCycles == 1
BothParts == 1
JoinNotifications == 1
JoinCycles == 1
MaxDuration == 340
MaxHint == 3
NumPutThreads == 2
NumKeys == 4
MaxTable == 3
NumFeedItems == 3
MaxPolls == 2
MaxFieldLen == 2
max_cache_size == 2     \* 50 in the source, scaled down with the keys

(* ------------------------- program constants -------------------------- *)
HashSaveEvery == 50
CycleSaveEvery == 5
MaxAttempts == 2
MinDuration == 3
MaxAcceptDuration == 120
ExtendThreshold == 60
ExtendTarget == 63
MinPartDuration == 3
DefaultMaxDuration == 113
MaxAgeSeconds == 300
CacheDuration == 15
CacheSaveEvery == 10
FetchLimit == 1

(* ------------------------------- values ------------------------------- *)
Titles == {"t"}
Videos == [id : 1..NumItems, title : Titles]
NoVideo == [id |-> 0, title |-> ""]
ChannelIds == 1..NumItems
Handlers == 1..NumHandlers
Slots == 1..NumChannels
PushRunners == {<<"push", h>> : h \in Handlers}
PollRunners == {<<"poll", c>> : c \in Slots}
Runners == PushRunners \cup PollRunners
Paths == {"push", "poll"}
WorkerDone == {"uploaded", "failed", "aborted", "kept"}

VARIABLES
    channels,               \* config["channels"]: slot -> channel_id
    auto_upload,            \* config["auto_upload"]
    pc,                     \* position of every runner
    vid,                    \* the video a runner's job is about
    workers,                \* per runner: part number -> state of its upload worker
    orig,                   \* per runner: the downloaded original file is on disk
    processing_video,       \* YouTubeMonitorPubSub.processing_video
    processed_videos,       \* YouTubeMonitorPubSub.processed_videos (set of ids)
    video_hash_cache,       \* YouTubeMonitor.video_hash_cache (set of hashes)
    yt_processed_videos,    \* YouTubeMonitor.processed_videos (list of hashes)
    processed_videos_file,  \* processed_videos.json
    video_hash_cache_file,  \* video_hash_cache.pkl
    save_counter,           \* YouTubeMonitor.save_counter
    notifs,                 \* notifications delivered so far
    cycle,                  \* polling cycles started so far
    started,                \* <<path, video>> -> jobs whose download was started
    completed,              \* <<path, video>> -> jobs whose fan-out completed
    last,                   \* the outcome logged last: [runner, video, outcome]
    dl,                     \* one call of download_video, stage by stage
    sv,                     \* one call of split_video / ffmpeg_split_video
    up,                     \* one upload fan-out of split_video, worker by worker
    scrapetube_cache,       \* YouTubeMonitor.scrapetube_cache (OrderedDict)
    scrapetube_cache_file,  \* scrapetube_cache.pkl
    now,                    \* time.time()
    put_pc,                 \* per polling thread: its cache_scrapetube_data call
    cached_videos,          \* what the last cache lookup returned
    boot,                   \* one construction of a monitor object
    config_channels,        \* config["channels"] under add and remove
    config_file,            \* monitor_config.json
    table_pc,               \* where the operation on the channel table stands
    found,                  \* what find_channel_for_video returned last
    at_exit,                \* the caches when the process exited
    feed,                   \* the videos of one channel, newest first
    poll,                   \* the checks of that channel and what they found
    px                      \* one job of a channel with a proxy

vars == <<channels, auto_upload, pc, vid, workers, orig, processing_video,
          processed_videos, video_hash_cache, yt_processed_videos,
          processed_videos_file, video_hash_cache_file, save_counter, notifs,
          cycle, started, completed, last, dl, sv, up, scrapetube_cache,
          scrapetube_cache_file, now, put_pc, cached_videos, boot,
          config_channels, config_file, table_pc, found, at_exit, feed,
          poll, px>>

configVars == <<channels, auto_upload>>
stageVars == <<dl, sv>>
fanVars == <<up>>
cacheVars == <<scrapetube_cache, scrapetube_cache_file, now, put_pc,
               cached_videos>>
bootVars == <<boot>>
tableVars == <<config_channels, config_file, table_pc, found>>
exitVars == <<at_exit>>
feedVars == <<feed, poll>>
proxyVars == <<px>>
storeVars == <<fanVars, cacheVars, bootVars, tableVars, exitVars, feedVars, proxyVars>>
pipelineVars == <<channels, auto_upload, pc, vid, workers, orig,
                  processing_video, processed_videos, video_hash_cache,
                  yt_processed_videos, processed_videos_file,
                  video_hash_cache_file, save_counter, notifs, cycle, started,
                  completed, last>>
pushState == <<processed_videos, processing_video>>
pollState == <<video_hash_cache, yt_processed_videos, video_hash_cache_file,
               save_counter>>

(* --------------------------- pure functions --------------------------- *)
\* The key of the push path's dedup set: the video id alone.
PushKey(v) == <<v.id>>

\* hashlib.md5(f"{video_id}_{video_title}"): a digest of id and title,
\* taken to be collision free.
VideoHash(v) == <<v.id, v.title>>

\* scrapetube, limit=1: the newest video of a channel.
Latest(cid) == [id |-> cid, title |-> "t"]

Range(s) == {s[i] : i \in 1..Len(s)}

Event(r, v, o) == [runner |-> r, video |-> v, outcome |-> o]

Bump(f, p, v) == [f EXCEPT ![<<p, v>>] = @ + 1]

InJob(r) == pc[r] \in {"download", "split", "join"}
ActiveJobs == {r \in Runners : InJob(r)}
ActivePushJobs == {r \in PushRunners : InJob(r)}
ActivePollJobs == {r \in PollRunners : InJob(r)}

(* ------------------- the stages of one job, in detail ----------------- *)
\* download_video before its first attempt: no attempt made, nothing at
\* output_path, nothing returned.
DownloadNotCalled ==
    [pc |-> "idle", attempt |-> 0, file |-> "none", fallbacks |-> 0,
     returned |-> ""]

\* split_video before it is called. Durations are in whole seconds.
SplitNotCalled ==
    [pc |-> "idle", caller |-> "", video_duration |-> 0, duration |-> 0,
     num_parts |-> 0, max_duration |-> 0, failed |-> {},
     output_files |-> <<>>, upload_workers |-> 0, result |-> "",
     extended_video_path |-> FALSE, extended_file |-> "none"]

\* The fan-out of split_video before it is reached.
FanOutNotCalled == [pc |-> "idle", spawned |-> 0, parts |-> <<>>]

\* The polling threads that can be inside cache_scrapetube_data at once.
PutThreads == 1..NumPutThreads

\* A thread outside get_channel_videos_scrapetube.
NoPut == [pc |-> "idle", key |-> 0]

\* What get_cached_scrapetube_data returns: None, or the cached list.
None == [hit |-> FALSE, videos |-> <<>>]
Cached(videos) == [hit |-> TRUE, videos |-> videos]

\* No lookup made yet.
NoLookup == [key |-> 0, max_age |-> 0, result |-> None]

\* Before a monitor object is constructed.
StateFiles ==
    {"processed_videos.json", "scrapetube_cache.pkl", "video_hash_cache.pkl"}

NotConstructed ==
    [pc |-> "off", class |-> "",
     files |-> [f \in StateFiles |-> "missing"],
     loaded |-> [f \in StateFiles |-> "unset"]]

\* monitor_config.json as load_config creates it: no channels, complete.
EmptyConfigFile == [channels |-> <<>>, complete |-> TRUE]

\* return None of find_channel_for_video.
NoChannel == [name |-> "", channel_id |-> 0]

\* find_channel_for_video not called yet.
NotResolved == [channel_id |-> 0, returned |-> NoChannel]

\* The process has not exited.
Running == [exited |-> FALSE, video_hash_cache |-> {},
            video_hash_cache_file |-> {}]

\* No check of the channel made yet.
NotPolled == [count |-> 0, since |-> 0, new_videos |-> {}]

\* tiktok.upload_video(..., proxy=None)
NoProxyUrl ==
    [set |-> FALSE, username |-> <<>>, password |-> <<>>, ip |-> <<>>,
     port |-> <<>>]

\* No job of the channel yet.
NoProxyJob ==
    [pc |-> "idle",
     proxy |-> [ip |-> <<>>, port |-> <<>>, username |-> <<>>,
                password |-> <<>>],
     proxy_config |-> <<>>, proxy_url |-> NoProxyUrl, uploads |-> 0]

Min(a, b) == IF a <= b THEN a ELSE b
Max(a, b) == IF a >= b THEN a ELSE b

(* --------------------------- faulty variants -------------------------- *)
\* Variants of operators defined below, each with one plausible fault; the
\* properties at the end of the module are expected to fail against them.

\* The in-flight flag is never set.
SetProcessingNever == FALSE

\* The gate of process_video_async lets every event through.
AlreadyProcessingNever == FALSE

\* The callback does not consult the dedup set.
AlreadyProcessedNever(v) == FALSE

\* split_video returns without joining its upload workers.
AllWorkersJoinedNoWait(r) == TRUE

\* mark_video_processed leaves the hash set as it is.
MarkVideoProcessedNoAdd(hash) == video_hash_cache

\* The flag is cleared on the success path only (no finally clause).
ReleaseFlagOnSuccess(r, o, flag) ==
    IF r[1] = "push" /\ o \in {"uploaded", "no_upload"} THEN FALSE ELSE flag

\* The too-short test of the segmentation loop is missing.
TooShortNever(part_actual_duration) == FALSE

\* The part count is rounded up instead of down.
ActualNumPartsCeil(duration, num_parts, part_duration) ==
    LET max_possible_parts == (duration + part_duration - 1) \div part_duration
        actual_num_parts == Min(num_parts, max_possible_parts)
    IN  IF duration >= MinPartDuration THEN Max(1, actual_num_parts)
        ELSE actual_num_parts

\* The part count is not raised to 1 for a file shorter than one part.
ActualNumPartsNoFloor(duration, num_parts, part_duration) ==
    Min(num_parts, duration \div part_duration)

\* The duration limits are tested with strict comparisons.
CheckVideoDurationStrict(duration) ==
    duration > MinDuration /\ duration < MaxAcceptDuration

\* A worker whose upload failed makes another attempt.
AfterAttemptRetry(success) == IF success THEN "done" ELSE "upload"

\* The part file is removed whatever the upload came to.
FileAfterUploadAlways(success, file) == "none"

\* An entry as old as max_age still counts as fresh.
FreshInclusive(age, max_age) == age <= max_age

\* No fallback to the first channel: an unmatched video gets no channel.
DefaultChannelNone(table) == NoChannel

\* An exception in a polling thread is not caught: the thread never
\* reports back.
AfterJobUncaught(r, o) ==
    IF r[1] = "push" THEN "idle" ELSE IF o = "exc" THEN "crashed" ELSE "done"

\* split_video is called whatever download_video returned.
DownloadedAny == dl.pc = "done"

\* split_video starts its upload workers whatever auto_upload says.
PartStartAlways == "running"

(* ------------------------------- Init --------------------------------- *)
InitWith(chs, au) ==
    /\ channels \in chs
    /\ auto_upload \in au
    /\ pc = [r \in Runners |-> "idle"]
    /\ vid = [r \in Runners |-> NoVideo]
    /\ workers = [r \in Runners |-> <<>>]
    /\ orig = [r \in Runners |-> FALSE]
    /\ processing_video = FALSE
    /\ processed_videos = {}
    /\ video_hash_cache = {}
    /\ yt_processed_videos = <<>>
    /\ processed_videos_file = {}
    /\ video_hash_cache_file = {}
    /\ save_counter = 0
    /\ notifs = 0
    /\ cycle = 0
    /\ started = [x \in Paths \X Videos |-> 0]
    /\ completed = [x \in Paths \X Videos |-> 0]
    /\ last = Event(<<"none", 0>>, NoVideo, "none")
    /\ dl = DownloadNotCalled
    /\ sv = SplitNotCalled
    /\ up = FanOutNotCalled
    /\ scrapetube_cache = <<>>
    /\ scrapetube_cache_file = <<>>
    /\ now = 0
    /\ put_pc = [t \in PutThreads |-> NoPut]
    /\ cached_videos = NoLookup
    /\ boot = NotConstructed
    /\ config_channels = <<>>
    /\ config_file = EmptyConfigFile
    /\ table_pc = "idle"
    /\ found = NotResolved
    /\ at_exit = Running
    /\ feed = <<>>
    /\ poll = NotPolled
    /\ px = NoProxyJob

Init == InitWith([Slots -> ChannelIds], BOOLEAN)


(* ---------------------- the stages both paths share ------------------- *)
\* finally: self.processing_video = False (process_video_async), whatever the
\* outcome o; a polling thread holds no flag and leaves its value, flag.
ReleaseFlag(r, o, flag) == IF r[1] = "push" THEN FALSE ELSE flag

\* Where a runner stands after its job or check ended with outcome o: every
\* exit of check_channel_for_new_videos, the except clause included, is a
\* return, so a polling thread ends and can be joined.
AfterJob(r, o) == IF r[1] = "push" THEN "idle" ELSE "done"

\* The end of a runner's job or check with outcome o: a push handler task
\* ends, a polling thread ends and waits to be joined.
JobEnd(r, v, o) ==
    /\ pc' = [pc EXCEPT ![r] = AfterJob(r, o)]
    /\ vid' = [vid EXCEPT ![r] = NoVideo]
    /\ workers' = [workers EXCEPT ![r] = <<>>]
    /\ processing_video' = ReleaseFlag(r, o, processing_video)
    /\ last' = Event(r, v, o)

\* download_video: a path on success, None on failure; os.makedirs, outside
\* any try, can raise.
DownloadResults == {"ok", "fail", "raise"}

DownloadVideo(r, res) ==
    /\ pc[r] = "download"
    /\ IF res = "ok"
       THEN /\ orig' = [orig EXCEPT ![r] = TRUE]
            /\ pc' = [pc EXCEPT ![r] = "split"]
            /\ UNCHANGED <<vid, workers, processing_video, last>>
       ELSE /\ JobEnd(r, vid[r], IF res = "fail" THEN "dlfail" ELSE "exc")
            /\ UNCHANGED orig
    /\ UNCHANGED <<stageVars, storeVars, configVars, processed_videos, processed_videos_file,
                   pollState, notifs, cycle, started, completed>>

\* What split_video can come to before the fan-out: the duration policy
\* rejects the file, the segmentation yields nothing, or n parts are made.
SplitResults == {"rejected", "splitfail", "parts"}

\* The caller after split_video returned []: the push path removes the
\* download (os.remove, line 222), the polling path returns at once.
OrigAfterSplitFailure(r) == IF r[1] = "push" THEN FALSE ELSE orig[r]

\* The state of part i when split_video reaches the fan-out: a worker thread
\* is started for it if auto_upload is on.
PartStart == IF auto_upload THEN "running" ELSE "kept"

SplitVideo(r, res, n) ==
    /\ pc[r] = "split"
    /\ IF res # "parts"
       THEN /\ JobEnd(r, vid[r], res)
            /\ orig' = [orig EXCEPT ![r] = OrigAfterSplitFailure(r)]
       ELSE /\ workers' = [workers EXCEPT ![r] = [i \in 1..n |-> PartStart]]
            /\ pc' = [pc EXCEPT ![r] = "join"]
            /\ UNCHANGED <<vid, orig, processing_video, last>>
    /\ UNCHANGED <<stageVars, storeVars, configVars, processed_videos, processed_videos_file,
                   pollState, notifs, cycle, started, completed>>

\* upload_part_worker: aborts when the part file is missing or empty, else
\* makes one upload attempt; the part file is removed on success only.
UploadResults == {"uploaded", "failed", "aborted"}

UploadPartWorker(r, i, res) ==
    /\ pc[r] = "join"
    /\ i \in DOMAIN workers[r]
    /\ workers[r][i] = "running"
    /\ workers' = [workers EXCEPT ![r][i] = res]
    /\ UNCHANGED <<stageVars, storeVars, configVars, pc, vid, orig, pushState, processed_videos_file,
                   pollState, notifs, cycle, started, completed, last>>

\* for worker in upload_workers: worker.join()
AllWorkersJoined(r) == \A i \in DOMAIN workers[r] : workers[r][i] \in WorkerDone

FanOutOutcome(r) ==
    IF \E i \in DOMAIN workers[r] : workers[r][i] = "uploaded"
    THEN "uploaded" ELSE "no_upload"

(* ------------------------------ push path ----------------------------- *)
\* The notification endpoint hands every inbound callback to a handler task
\* of its own, so several can be in progress.
Dispatchable(r, maxN) == pc[r] = "idle" /\ notifs < maxN

\* if video_id in self.processed_videos
AlreadyProcessed(v) == PushKey(v) \in processed_videos

\* if self.processing_video
AlreadyProcessing == processing_video

\* self.processing_video = True
SetProcessing == TRUE

\* process_video_async up to its first blocking call.
ProcessVideoAsyncEntry(url) ==
    IF AlreadyProcessing THEN "dropped"
    ELSE IF ~url THEN "nourl"
    ELSE "job"

\* video_notification_callback: the dedup test, the mark, and the call of
\* process_video_async when auto_upload is on. No statement in between
\* suspends the coroutine, so the whole of it is one step.
CallbackOutcome(v, url) ==
    IF AlreadyProcessed(v) THEN "skipped"
    ELSE IF ~auto_upload THEN "noauto"
    ELSE ProcessVideoAsyncEntry(url)

MarkedByCallback(v, o) ==
    IF o = "skipped" THEN processed_videos ELSE processed_videos \cup {PushKey(v)}

VideoNotificationCallback(h, v, url, maxN) ==
    LET r == <<"push", h>>
        o == CallbackOutcome(v, url)
    IN  /\ Dispatchable(r, maxN)
        /\ notifs' = notifs + 1
        /\ processed_videos' = MarkedByCallback(v, o)
        /\ processed_videos_file' =
               IF o = "skipped" THEN processed_videos_file ELSE processed_videos'
        /\ IF o = "job"
           THEN /\ processing_video' = SetProcessing
                /\ pc' = [pc EXCEPT ![r] = "download"]
                /\ vid' = [vid EXCEPT ![r] = v]
                /\ started' = Bump(started, "push", v)
           ELSE /\ processing_video' =
                      IF o = "nourl" THEN ReleaseFlag(r, o, SetProcessing)
                      ELSE processing_video
                /\ UNCHANGED <<pc, vid, started>>
        /\ last' = Event(r, v, o)
        /\ UNCHANGED <<stageVars, storeVars, configVars, workers, orig, pollState, cycle, completed>>

\* process_video_async after split_video returned the parts: remove the
\* download, count the video, and the finally clause.
PushFinish(h) ==
    LET r == <<"push", h>>
    IN  /\ pc[r] = "join"
        /\ AllWorkersJoined(r)
        /\ orig' = [orig EXCEPT ![r] = FALSE]
        /\ completed' = Bump(completed, "push", vid[r])
        /\ JobEnd(r, vid[r], FanOutOutcome(r))
        /\ UNCHANGED <<stageVars, storeVars, configVars, processed_videos, processed_videos_file,
                       pollState, notifs, cycle, started>>

(* ----------------------------- polling path --------------------------- *)
\* monitor_all_channels, first half: one thread per configured channel.
StartCycle(maxC) ==
    /\ cycle < maxC
    /\ \A r \in PollRunners : pc[r] = "idle"
    /\ cycle' = cycle + 1
    /\ pc' = [r \in Runners |-> IF r \in PollRunners THEN "check" ELSE pc[r]]
    /\ UNCHANGED <<stageVars, storeVars, configVars, vid, workers, orig, pushState,
                   processed_videos_file, pollState, notifs, started,
                   completed, last>>

\* is_video_processed
IsVideoProcessed(hash) == hash \in video_hash_cache

\* check_channel_for_new_videos up to the download: fetch the newest video,
\* hash it, and return if the hash is known.
CheckChannelForNewVideos(c, fetched) ==
    LET r == <<"poll", c>>
        v == Latest(channels[c])
    IN  /\ pc[r] = "check"
        /\ IF ~fetched
           THEN /\ JobEnd(r, NoVideo, "novideo")
                /\ UNCHANGED started
           ELSE IF IsVideoProcessed(VideoHash(v))
           THEN /\ JobEnd(r, v, "skipped")
                /\ UNCHANGED started
           ELSE /\ pc' = [pc EXCEPT ![r] = "download"]
                /\ vid' = [vid EXCEPT ![r] = v]
                /\ started' = Bump(started, "poll", v)
                /\ last' = Event(r, v, "job")
                /\ UNCHANGED <<workers, processing_video>>
        /\ UNCHANGED <<stageVars, storeVars, configVars, orig, processed_videos,
                       processed_videos_file, pollState, notifs, cycle,
                       completed>>

\* mark_video_processed: add the hash, save the set every 50 additions.
MarkVideoProcessed(hash) == video_hash_cache \cup {hash}

HashFileAfterMark(cache) ==
    IF Cardinality(cache) % HashSaveEvery = 0 THEN cache
    ELSE video_hash_cache_file

\* check_channel_for_new_videos after split_video returned the parts: mark,
\* append, save, remove the download.
PollFinish(c) ==
    LET r == <<"poll", c>>
        hash == VideoHash(vid[r])
    IN  /\ pc[r] = "join"
        /\ AllWorkersJoined(r)
        /\ video_hash_cache' = MarkVideoProcessed(hash)
        /\ video_hash_cache_file' = HashFileAfterMark(video_hash_cache')
        /\ yt_processed_videos' = Append(yt_processed_videos, hash)
        /\ processed_videos_file' = Range(yt_processed_videos')
        /\ orig' = [orig EXCEPT ![r] = FALSE]
        /\ completed' = Bump(completed, "poll", vid[r])
        /\ JobEnd(r, vid[r], FanOutOutcome(r))
        /\ UNCHANGED <<stageVars, storeVars, configVars, processed_videos, save_counter, notifs,
                       cycle, started>>

\* monitor_all_channels, second half: join every thread, count the cycle,
\* save the caches every fifth cycle.
EndCycle ==
    /\ \A r \in PollRunners : pc[r] = "done"
    /\ pc' = [r \in Runners |-> IF r \in PollRunners THEN "idle" ELSE pc[r]]
    /\ save_counter' = save_counter + 1
    /\ video_hash_cache_file' =
           IF save_counter' % CycleSaveEvery = 0 THEN video_hash_cache
           ELSE video_hash_cache_file
    /\ UNCHANGED <<stageVars, storeVars, configVars, vid, workers, orig, pushState,
                   processed_videos_file, video_hash_cache,
                   yt_processed_videos, notifs, cycle, started, completed,
                   last>>

(* --------------------------- specifications --------------------------- *)
\* The steps of a push handler's job, with at most maxP parts per video.
PushStage(r, maxP) ==
    \/ \E res \in DownloadResults : DownloadVideo(r, res)
    \/ \E res \in SplitResults, n \in 1..maxP : SplitVideo(r, res, n)
    \/ \E i \in 1..maxP, res \in UploadResults : UploadPartWorker(r, i, res)
    \/ PushFinish(r[2])

\* The push path, with at most maxN notifications.
PushPath(maxN, maxP) ==
    \/ \E h \in Handlers, v \in Videos, url \in BOOLEAN :
           VideoNotificationCallback(h, v, url, maxN)
    \/ \E r \in PushRunners : PushStage(r, maxP)

\* The polling path, with at most maxC cycles.
PollPath(maxC, maxP) ==
    \/ StartCycle(maxC)
    \/ \E c \in Slots, fetched \in BOOLEAN : CheckChannelForNewVideos(c, fetched)
    \/ \E r \in PollRunners, res \in DownloadResults : DownloadVideo(r, res)
    \/ \E r \in PollRunners, res \in SplitResults, n \in 1..maxP :
           SplitVideo(r, res, n)
    \/ \E r \in PollRunners, i \in 1..maxP, res \in UploadResults :
           UploadPartWorker(r, i, res)
    \/ \E c \in Slots : PollFinish(c)
    \/ EndCycle

\* Both paths side by side, on the same videos.
Next == PushPath(BothNotifications, BothParts) \/ PollPath(BothCycles, BothParts)

Spec == Init /\ [][Next]_vars

\* The push path alone.
PushNext == PushPath(MaxNotifications, MaxParts)
InitPush == InitWith({[c \in Slots |-> 1]}, BOOLEAN)
PushSpec == InitPush /\ [][PushNext]_vars

\* The polling path alone.
PollNext == PollPath(MaxCycles, MaxParts)
PollSpec == Init /\ [][PollNext]_vars

\* Both paths with one notification and one cycle, every video in up to
\* MaxParts parts, every channel slot on a channel of its own.
OwnChannel == [c \in Slots |-> ((c - 1) % NumItems) + 1]
InitJoin == InitWith({OwnChannel}, BOOLEAN)
JoinNext == PushPath(JoinNotifications, MaxParts) \/ PollPath(JoinCycles, MaxParts)
JoinSpec == InitJoin /\ [][JoinNext]_vars

\* The push path with every started blocking call returning: a handler in a
\* job takes its next step, a started upload worker ends.
\* The polling path with every thread scheduled and every blocking call
\* returning.
FairPollSpec == PollSpec /\ WF_vars(PollNext)

FairPushSpec ==
    PushSpec /\ WF_vars(\E r \in PushRunners : PushStage(r, MaxParts))

(* ----------------------- download_video, in detail -------------------- *)
FileStates == {"none", "empty", "data"}

\* What yt-dlp can come to in one attempt: a non-empty file, an empty file,
\* no file, or an exception.
PrimaryResults == {"ok", "empty", "missing", "raise"}

\* What pytube can come to: a non-empty file, no suitable stream, a missing
\* or empty file, or an exception.
FallbackResults == {"ok", "nostreams", "bad", "raise"}

\* download_video is called (by either path) for a video not yet on disk.
CallDownloadVideo ==
    /\ dl.pc = "idle"
    /\ sv.pc = "idle"
    /\ dl' = [dl EXCEPT !.pc = "primary"]
    /\ UNCHANGED <<sv, pipelineVars, storeVars>>

\* After a failed attempt that did not raise, or raised before the last
\* attempt: loop again, or leave the loop for the fallback.
AfterFailedAttempt(attempt) == IF attempt < MaxAttempts THEN "primary" ELSE "fallback"

\* One pass of the while loop: left is what an exception leaves at
\* output_path.
PrimaryAttempt(res, left) ==
    LET attempt == dl.attempt + 1
    IN  /\ dl.pc = "primary"
        /\ dl.attempt < MaxAttempts
        /\ res = "missing" => dl.file = "none"
        /\ dl' =
             CASE res = "ok" ->
                    [dl EXCEPT !.attempt = attempt, !.file = "data",
                               !.returned = "path", !.pc = "done"]
               [] res \in {"empty", "missing"} ->
                    [dl EXCEPT !.attempt = attempt, !.file = "none",
                               !.pc = AfterFailedAttempt(attempt)]
               [] res = "raise" /\ attempt < MaxAttempts ->
                    [dl EXCEPT !.attempt = attempt, !.file = left]
               [] OTHER ->
                    [dl EXCEPT !.attempt = attempt, !.file = "none",
                               !.returned = "None", !.pc = "done"]
        /\ UNCHANGED <<sv, pipelineVars, storeVars>>

\* download_video_pytube_fallback: left is the file a failed download
\* leaves at output_path.
DownloadVideoPytubeFallback(res, left) ==
    /\ dl.pc = "fallback"
    /\ res = "bad" => left \in {"none", "empty"}
    /\ dl' =
         CASE res = "ok" ->
                [dl EXCEPT !.fallbacks = @ + 1, !.file = "data",
                           !.returned = "path", !.pc = "done"]
           [] res = "nostreams" ->
                [dl EXCEPT !.fallbacks = @ + 1, !.returned = "None",
                           !.pc = "done"]
           [] OTHER ->
                [dl EXCEPT !.fallbacks = @ + 1, !.file = left,
                           !.returned = "None", !.pc = "done"]
    /\ UNCHANGED <<sv, pipelineVars, storeVars>>

(* ------------------------ split_video, in detail ---------------------- *)
Durations == 0..MaxDuration
Hints == 0..MaxHint
MaxDurationLimits == {2, 50, DefaultMaxDuration}

\* check_video_duration_requirements: is_valid; an unreadable duration is
\* reported as 0.
CheckVideoDurationRequirements(duration) ==
    duration >= MinDuration /\ duration <= MaxAcceptDuration

\* extend_video_to_minimum_duration: the duration of the file it writes.
ExtendedDuration(original_duration, target_duration) ==
    IF original_duration >= target_duration THEN original_duration
    ELSE original_duration
           + Min(target_duration - original_duration, original_duration)

\* ffmpeg_split_video: actual_num_parts.
ActualNumParts(duration, num_parts, part_duration) ==
    LET max_possible_parts == duration \div part_duration
        actual_num_parts == Min(num_parts, max_possible_parts)
    IN  IF duration >= MinPartDuration THEN Max(1, actual_num_parts)
        ELSE actual_num_parts

\* if part_actual_duration < 3.0
TooShort(part_actual_duration) == part_actual_duration < MinPartDuration

Part(i, start_time, end_time) ==
    [part |-> i + 1, start |-> start_time, end |-> end_time]

\* The for loop of ffmpeg_split_video from index i on: break when the start
\* is past the end of the video, continue on a too-short part, and append
\* the part unless its extraction failed.
RECURSIVE SplitLoop(_, _, _, _, _, _)
SplitLoop(i, actual_num_parts, duration, part_duration, failed, output_files) ==
    IF i >= actual_num_parts THEN output_files
    ELSE LET start_time == i * part_duration
             end_time == Min((i + 1) * part_duration, duration)
         IN  IF start_time >= duration THEN output_files
             ELSE IF TooShort(end_time - start_time) \/ (i + 1) \in failed
             THEN SplitLoop(i + 1, actual_num_parts, duration, part_duration,
                            failed, output_files)
             ELSE SplitLoop(i + 1, actual_num_parts, duration, part_duration,
                            failed,
                            Append(output_files, Part(i, start_time, end_time)))

\* The parts for which the loop of ffmpeg_split_video runs ffmpeg: those
\* before the break that are not too short.
Attempted(duration, num_parts, part_duration) ==
    {i + 1 : i \in {j \in 0..(ActualNumParts(duration, num_parts,
                                              part_duration) - 1) :
                       /\ j * part_duration < duration
                       /\ ~TooShort(Min((j + 1) * part_duration, duration)
                                      - j * part_duration)}}

FfmpegSplit(duration, num_parts, max_duration, failed) ==
    SplitLoop(0, ActualNumParts(duration, num_parts, max_duration), duration,
              max_duration, failed, <<>>)

\* A call of caller on a file of duration d, for n parts of at most limit
\* seconds, standing at stage.
Called(caller, stage, d, n, limit) ==
    [sv EXCEPT !.pc = stage, !.caller = caller, !.video_duration = d,
               !.duration = d, !.num_parts = n, !.max_duration = limit]

\* if not downloaded_path: return, in both callers of split_video.
Downloaded == dl.returned = "path"

\* finally, lines 518-524: cleanup_extended_video removes the file at
\* extended_video_path, if that was set.
CleanupExtendedVideo(s) ==
    IF s.extended_video_path THEN [s EXCEPT !.extended_file = "none"] ELSE s

\* split_video is called on the downloaded file.
CallSplitVideo ==
    /\ Downloaded
    /\ sv.pc = "idle"
    /\ \E d \in Durations, n \in Hints, limit \in MaxDurationLimits :
           sv' = Called("split_video", "policy", d, n, limit)
    /\ UNCHANGED <<dl, pipelineVars, storeVars>>

\* ffmpeg_split_video is called on its own on a file.
CallFfmpegSplitVideo ==
    /\ dl.pc = "idle"
    /\ sv.pc = "idle"
    /\ \E d \in Durations, n \in Hints, limit \in MaxDurationLimits :
           sv' = Called("direct", "split", d, n, limit)
    /\ UNCHANGED <<dl, pipelineVars, storeVars>>

\* process_video_for_upload: reject, extend a short video, or pass it on;
\* left is what a failed extension leaves at the path of the extended file.
ProcessVideoForUpload(extended, left) ==
    /\ sv.pc = "policy"
    /\ sv' =
         IF ~CheckVideoDurationRequirements(sv.video_duration)
         THEN [sv EXCEPT !.pc = "done", !.result = "rejected"]
         ELSE IF sv.video_duration >= ExtendThreshold
         THEN [sv EXCEPT !.pc = "split"]
         ELSE IF extended
         THEN [sv EXCEPT !.pc = "split",
                         !.duration = ExtendedDuration(sv.video_duration, ExtendTarget),
                         !.extended_video_path = TRUE,
                         !.extended_file = "data"]
         ELSE [sv EXCEPT !.pc = "done", !.result = "extendfail",
                         !.extended_file = left]
    /\ UNCHANGED <<dl, pipelineVars, storeVars>>

\* The state after ffmpeg_split_video returned output_files, the
\* extraction of the parts in failed having failed.
AfterSplit(failed, output_files) ==
    IF output_files = <<>>
    THEN CleanupExtendedVideo([sv EXCEPT !.pc = "done", !.failed = failed,
                                         !.result = "splitfail"])
    ELSE IF sv.caller = "direct"
    THEN [sv EXCEPT !.pc = "done", !.failed = failed,
                    !.output_files = output_files, !.result = "parts"]
    ELSE [sv EXCEPT !.pc = "fanout", !.failed = failed,
                    !.output_files = output_files]

\* ffmpeg_split_video; failed holds the parts, of the num_parts asked for,
\* whose extraction fails.
FfmpegSplitVideo ==
    /\ sv.pc = "split"
    /\ \E failed \in SUBSET (1..sv.num_parts) :
           sv' = AfterSplit(failed, FfmpegSplit(sv.duration, sv.num_parts,
                                                sv.max_duration, failed))
    /\ UNCHANGED <<dl, pipelineVars, storeVars>>

\* split_video after the split: one upload worker per part if auto_upload.
StartUploadWorkers ==
    /\ sv.pc = "fanout"
    /\ sv' = CleanupExtendedVideo(
                 [sv EXCEPT !.pc = "done", !.result = "parts",
                            !.upload_workers =
                                IF auto_upload THEN Len(sv.output_files)
                                ELSE 0])
    /\ UNCHANGED <<dl, pipelineVars, storeVars>>

StageNext ==
    \/ CallDownloadVideo
    \/ \E res \in PrimaryResults, left \in FileStates : PrimaryAttempt(res, left)
    \/ \E res \in FallbackResults, left \in FileStates :
           DownloadVideoPytubeFallback(res, left)
    \/ CallSplitVideo
    \/ CallFfmpegSplitVideo
    \/ \E extended \in BOOLEAN, left \in FileStates :
           ProcessVideoForUpload(extended, left)
    \/ FfmpegSplitVideo
    \/ StartUploadWorkers

\* One download_video and one split_video, or one ffmpeg_split_video on its
\* own, on every input.
StageSpec == InitJoin /\ [][StageNext]_vars

(* ------------------- the upload fan-out, in detail -------------------- *)
\* A part file as ffmpeg_split_video leaves it: it exists (line 128 of
\* ffmpeg_split.py), with or without content.
PartFiles == {"data", "empty"}

\* A part handed to the fan-out: the file as made, the file now, the
\* position of its worker, the calls of upload_to_tiktok made for it and
\* what its worker came to.
NewPart(file) ==
    [made |-> file, file |-> file, pc |-> "new", attempts |-> 0,
     outcome |-> ""]

\* split_video reaches line 470 with the parts of one video; without
\* auto_upload it starts no worker.
CallFanOut ==
    /\ up.pc = "idle"
    /\ \E n \in 1..MaxHint : \E files \in [1..n -> PartFiles] :
           up' = [pc |-> IF auto_upload THEN "spawn" ELSE "returned",
                  spawned |-> 0,
                  parts |-> [i \in 1..n |-> NewPart(files[i])]]
    /\ UNCHANGED <<pipelineVars, stageVars, cacheVars, bootVars, tableVars,
                   exitVars, feedVars, proxyVars>>

\* One pass of the loop at lines 473-484: the thread of the next part is
\* started.
StartUploadWorker ==
    LET i == up.spawned + 1
    IN  /\ up.pc = "spawn"
        /\ up' = [up EXCEPT !.spawned = i, !.parts[i].pc = "check",
                            !.pc = IF i = Len(up.parts) THEN "join" ELSE "spawn"]
        /\ UNCHANGED <<pipelineVars, stageVars, cacheVars, bootVars,
                       tableVars, exitVars, feedVars, proxyVars>>

\* upload_part_worker, lines 339-349: return if the part file is missing or
\* empty.
CheckPartFile(i) ==
    /\ i \in DOMAIN up.parts
    /\ up.parts[i].pc = "check"
    /\ up' = IF up.parts[i].file = "data"
             THEN [up EXCEPT !.parts[i].pc = "upload"]
             ELSE [up EXCEPT !.parts[i].pc = "done",
                             !.parts[i].outcome = "aborted"]
    /\ UNCHANGED <<pipelineVars, stageVars, cacheVars, bootVars, tableVars,
                   exitVars, feedVars, proxyVars>>

\* The worker after upload_to_tiktok returned: it ends in either case.
AfterAttempt(success) == "done"

\* The part file after upload_to_tiktok returned: removed on success only.
FileAfterUpload(success, file) == IF success THEN "none" ELSE file

\* upload_part_worker, lines 352-365: one call of upload_to_tiktok, which
\* returns True or False.
UploadToTiktok(i, success) ==
    /\ i \in DOMAIN up.parts
    /\ up.parts[i].pc = "upload"
    /\ up' = [up EXCEPT
                 !.parts[i].attempts = @ + 1,
                 !.parts[i].file = FileAfterUpload(success, @),
                 !.parts[i].outcome = IF success THEN "uploaded" ELSE "failed",
                 !.parts[i].pc = AfterAttempt(success)]
    /\ UNCHANGED <<pipelineVars, stageVars, cacheVars, bootVars, tableVars,
                   exitVars, feedVars, proxyVars>>

\* Lines 487-492: every worker is joined, split_video goes on.
JoinUploadWorkers ==
    /\ up.pc = "join"
    /\ \A i \in DOMAIN up.parts : up.parts[i].pc = "done"
    /\ up' = [up EXCEPT !.pc = "returned"]
    /\ UNCHANGED <<pipelineVars, stageVars, cacheVars, bootVars, tableVars,
                   exitVars, feedVars, proxyVars>>

FanOutNext ==
    \/ CallFanOut
    \/ StartUploadWorker
    \/ \E i \in 1..MaxHint : CheckPartFile(i)
    \/ \E i \in 1..MaxHint, success \in BOOLEAN : UploadToTiktok(i, success)
    \/ JoinUploadWorkers

\* The fan-out of one job, the workers in every interleaving.
FanOutSpec == InitJoin /\ [][FanOutNext]_vars

(* --------------------------- the list cache --------------------------- *)
CacheKeys == 1..NumKeys

\* The moments time.time() is read at: they put an entry at the ages 14,
\* 15, 299 and 300.
TimePoints == {0, 1, CacheDuration, MaxAgeSeconds}

\* max_age_seconds as get_channel_videos_scrapetube passes it, and
\* cache_duration of FastYouTubeMonitor, which makes the same test.
MaxAges == {CacheDuration, MaxAgeSeconds}

\* What scrapetube returns for a channel: no video, or its newest one.
Payloads == {<<>>, <<"v">>}

KeysOf(cache) == {cache[i].key : i \in 1..Len(cache)}

\* self.scrapetube_cache[cache_key]
EntryOf(cache, key) ==
    cache[CHOOSE i \in 1..Len(cache) : cache[i].key = key]

\* if current_time - cache_time < max_age_seconds
Fresh(age, max_age) == age < max_age

\* get_cached_scrapetube_data: the cached videos, or None.
GetCachedScrapetubeData(cache, key, max_age, current_time) ==
    IF key \in KeysOf(cache)
       /\ Fresh(current_time - EntryOf(cache, key).timestamp, max_age)
    THEN Cached(EntryOf(cache, key).videos)
    ELSE None

\* self.scrapetube_cache[cache_key] = {...} on an OrderedDict: a new key is
\* appended, a key already there keeps its place and gets the new value.
SetItem(cache, entry) ==
    IF entry.key \in KeysOf(cache)
    THEN [i \in 1..Len(cache) |->
             IF cache[i].key = entry.key THEN entry ELSE cache[i]]
    ELSE Append(cache, entry)

\* if len(self.scrapetube_cache) > self.max_cache_size: popitem(last=False)
Evict(cache) == IF Len(cache) > max_cache_size THEN Tail(cache) ELSE cache

\* if len(self.scrapetube_cache) % 10 == 0: self.save_scrapetube_cache()
CacheFileAfterPut(cache) ==
    IF Len(cache) % CacheSaveEvery = 0 THEN cache ELSE scrapetube_cache_file

\* The clock moves on to one of times.
Tick(times) ==
    /\ \E t \in times : t > now /\ now' = t
    /\ UNCHANGED <<pipelineVars, stageVars, fanVars, scrapetube_cache,
                   scrapetube_cache_file, put_pc, cached_videos, bootVars,
                   tableVars, exitVars, feedVars, proxyVars>>

\* if cached_videos: a list with videos in it is used, None or an empty
\* list is not.
Truthy(result) == result.hit /\ result.videos # <<>>

\* get_channel_videos_scrapetube, lines 216-220, in a polling thread: look
\* the channel up and return what the cache holds, or go on to fetch.
LookUp(t, key, max_age) ==
    LET result == GetCachedScrapetubeData(scrapetube_cache, key, max_age, now)
    IN  /\ put_pc[t].pc = "idle"
        /\ cached_videos' = [key |-> key, max_age |-> max_age, result |-> result]
        /\ put_pc' = [put_pc EXCEPT ![t] =
                         IF Truthy(result) THEN NoPut
                         ELSE [pc |-> "fetch", key |-> key]]
        /\ UNCHANGED <<pipelineVars, stageVars, fanVars, scrapetube_cache,
                       scrapetube_cache_file, now, bootVars, tableVars,
                       exitVars, feedVars, proxyVars>>

\* Lines 225-243 and 171-174: scrapetube is asked, and what it returns is
\* stored under the key; if it raises, nothing is stored (248-250).
CacheScrapetubeData(t, fetched, videos) ==
    /\ put_pc[t].pc = "fetch"
    /\ IF fetched
       THEN /\ scrapetube_cache' =
                   SetItem(scrapetube_cache,
                           [key |-> put_pc[t].key, videos |-> videos,
                            timestamp |-> now])
            /\ put_pc' = [put_pc EXCEPT ![t].pc = "inserted"]
       ELSE /\ put_pc' = [put_pc EXCEPT ![t] = NoPut]
            /\ UNCHANGED scrapetube_cache
    /\ UNCHANGED <<pipelineVars, stageVars, fanVars, scrapetube_cache_file,
                   now, cached_videos, bootVars, tableVars, exitVars, feedVars, proxyVars>>

\* cache_scrapetube_data, lines 176-182: trim the cache, save it at every
\* tenth size; the put is complete.
MaintainCacheSize(t) ==
    /\ put_pc[t].pc = "inserted"
    /\ scrapetube_cache' = Evict(scrapetube_cache)
    /\ scrapetube_cache_file' = CacheFileAfterPut(scrapetube_cache')
    /\ put_pc' = [put_pc EXCEPT ![t] = NoPut]
    /\ UNCHANGED <<pipelineVars, stageVars, fanVars, now, cached_videos,
                   bootVars, tableVars, exitVars, feedVars, proxyVars>>

\* The list cache used by threads for the channels in keys, with the
\* limits in ages, scrapetube returning one of payloads, at the moments in
\* times.
CachePath(threads, keys, ages, payloads, times) ==
    \/ Tick(times)
    \/ \E t \in threads, key \in keys, max_age \in ages :
           LookUp(t, key, max_age)
    \/ \E t \in threads, fetched \in BOOLEAN, videos \in payloads :
           CacheScrapetubeData(t, fetched, videos)
    \/ \E t \in threads : MaintainCacheSize(t)

\* Lookups at every age: one thread at a time, max_cache_size channels.
TtlNext == CachePath({1}, 1..max_cache_size, MaxAges, Payloads, TimePoints)
TtlSpec == InitJoin /\ [][TtlNext]_vars

\* Eviction: the threads of a cycle side by side, more channels than the
\* cache holds, every channel with a video, entries fresh and stale.
LruNext ==
    CachePath(PutThreads, CacheKeys, {MaxAgeSeconds}, {<<"v">>},
              {0, MaxAgeSeconds})
LruSpec == InitJoin /\ [][LruNext]_vars

(* --------------------------- the feed of a channel -------------------- *)
FeedItems == 1..NumFeedItems

FeedVideo(id) == [id |-> id, title |-> "t"]

\* The channel publishes a video: it is the newest of its feed.
Publish(id) ==
    /\ id \notin Range(feed)
    /\ feed' = <<id>> \o feed
    /\ poll' = [poll EXCEPT !.since = @ + 1]
    /\ UNCHANGED <<pipelineVars, stageVars, fanVars, cacheVars, bootVars,
                   tableVars, exitVars, proxyVars>>

\* scrapetube.get_channel(channel_id, limit=limit): the newest limit videos.
GetChannelVideosScrapetube(limit) == SubSeq(feed, 1, Min(limit, Len(feed)))

\* check_channel_for_new_videos, lines 606-629: the videos that go on to
\* the download, of the fetched ones: videos[0] if its hash is not known.
NewVideos(videos) ==
    IF videos = <<>> THEN {}
    ELSE IF IsVideoProcessed(VideoHash(FeedVideo(videos[1]))) THEN {}
    ELSE {videos[1]}

\* check_channel_for_new_videos on the feed; job_ok is whether the job of
\* a new video gets as far as mark_video_processed (lines 672-674).
CheckFeed(job_ok) ==
    LET new_videos == NewVideos(GetChannelVideosScrapetube(FetchLimit))
        marked == IF job_ok THEN {VideoHash(FeedVideo(v)) : v \in new_videos}
                  ELSE {}
    IN  /\ poll.count < MaxPolls
        /\ poll' = [count |-> poll.count + 1, since |-> 0,
                    new_videos |-> new_videos]
        /\ video_hash_cache' = video_hash_cache \cup marked
        /\ video_hash_cache_file' =
               IF marked = {} THEN video_hash_cache_file
               ELSE HashFileAfterMark(video_hash_cache')
        /\ UNCHANGED <<configVars, pc, vid, workers, orig, pushState,
                       yt_processed_videos, processed_videos_file,
                       save_counter, notifs, cycle, started, completed, last,
                       feed, stageVars, fanVars, cacheVars, bootVars,
                       tableVars, exitVars, proxyVars>>

FeedNext ==
    \/ \E id \in FeedItems : Publish(id)
    \/ \E job_ok \in BOOLEAN : CheckFeed(job_ok)

\* One channel publishing while it is polled.
FeedSpec == InitJoin /\ [][FeedNext]_vars

(* ------------------------------ the proxy ----------------------------- *)
\* The strings of a proxy entry: characters that are a colon or not.
Chars == {"a", ":"}
Fields == UNION {[1..n -> Chars] : n \in 1..MaxFieldLen}
Proxies == [ip : Fields, port : Fields, username : Fields, password : Fields]

\* f"{proxy['ip']}:{proxy['port']}:{proxy['username']}:{proxy['password']}"
ProxyString(proxy) ==
    proxy.ip \o <<":">> \o proxy.port \o <<":">> \o proxy.username
        \o <<":">> \o proxy.password

\* str.split(':'), the part being read in last.
RECURSIVE SplitColon(_, _)
SplitColon(str, parts) ==
    IF str = <<>> THEN parts
    ELSE IF Head(str) = ":" THEN SplitColon(Tail(str), Append(parts, <<>>))
    ELSE SplitColon(Tail(str),
                    [parts EXCEPT ![Len(parts)] = Append(@, Head(str))])

Split(str) == SplitColon(str, <<(<<>>)>>)

\* upload_to_tiktok, lines 554-566: proxy_url, or None when the string
\* does not split into four parts.
ProxyUrl(proxy_config) ==
    LET parts == Split(proxy_config)
    IN  IF Len(parts) = 4
        THEN [set |-> TRUE, username |-> parts[3], password |-> parts[4],
              ip |-> parts[1], port |-> parts[2]]
        ELSE NoProxyUrl

\* The caller of split_video finds a proxy in the channel entry and passes
\* it on as one string.
ResolveProxy ==
    /\ px.pc = "idle"
    /\ \E proxy \in Proxies :
           px' = [NoProxyJob EXCEPT !.pc = "upload", !.proxy = proxy,
                                   !.proxy_config = ProxyString(proxy)]
    /\ UNCHANGED <<pipelineVars, stageVars, fanVars, cacheVars, bootVars,
                   tableVars, exitVars, feedVars>>

\* upload_to_tiktok for one part of the job: tiktok.upload_video is called
\* with proxy=proxy_url.
UploadThroughProxy ==
    /\ px.pc = "upload"
    /\ px' = [px EXCEPT !.proxy_url = ProxyUrl(px.proxy_config),
                        !.uploads = @ + 1,
                        !.pc = IF px.uploads + 1 = MaxParts THEN "done"
                               ELSE "upload"]
    /\ UNCHANGED <<pipelineVars, stageVars, fanVars, cacheVars, bootVars,
                   tableVars, exitVars, feedVars>>

ProxyNext == ResolveProxy \/ UploadThroughProxy

\* The uploads of one job of a channel with a proxy, for every proxy.
ProxySpec == InitJoin /\ [][ProxyNext]_vars

(* ------------------------------- shutdown ----------------------------- *)
\* start_monitoring, except KeyboardInterrupt: the handler logs a line and
\* the process exits; nothing is saved. at_exit keeps what the dedup set
\* and video_hash_cache.pkl held at that moment.
KeyboardInterrupt ==
    /\ ~at_exit.exited
    /\ at_exit' = [exited |-> TRUE,
                   video_hash_cache |-> video_hash_cache,
                   video_hash_cache_file |-> video_hash_cache_file]
    /\ UNCHANGED <<pipelineVars, stageVars, fanVars, cacheVars, bootVars,
                   tableVars, feedVars, proxyVars>>

ExitNext == PollPath(MaxCycles, MaxParts) \/ KeyboardInterrupt

\* The polling monitor is stopped at some point and started again:
\* YouTubeMonitor.__init__ reads video_hash_cache.pkl into the dedup set;
\* processed_videos.json holds the list as line 674 saved it; the threads
\* are gone, the files on disk stay, save_counter is a fresh attribute.
Restart ==
    /\ video_hash_cache' = video_hash_cache_file
    /\ pc' = [r \in Runners |-> "idle"]
    /\ vid' = [r \in Runners |-> NoVideo]
    /\ workers' = [r \in Runners |-> <<>>]
    /\ save_counter' = 0
    /\ last' = Event(<<"none", 0>>, NoVideo, "restart")
    /\ UNCHANGED <<configVars, orig, pushState, yt_processed_videos,
                   processed_videos_file, video_hash_cache_file, notifs,
                   cycle, started, completed, stageVars, storeVars>>

RestartNext == PollPath(MaxCycles, MaxParts) \/ Restart

\* The polling path with a restart at any moment.
RestartSpec == Init /\ [][RestartNext]_vars

\* The polling path with an interrupt at any moment.
ExitSpec == Init /\ [][ExitNext]_vars

(* ----------------------------- construction -------------------------- *)
MonitorClasses == {"YouTubeMonitor", "YouTubeMonitorPubSub"}
FileConditions == {"missing", "corrupt", "ok"}

\* A load without exception handling: if os.path.exists(...): json.load(f).
LoadUnguarded(condition) ==
    CASE condition = "missing" -> "empty"
      [] condition = "corrupt" -> "raised"
      [] OTHER -> "content"

\* A load inside try/except: the handler resets the state to empty.
LoadGuarded(condition) ==
    IF condition = "ok" THEN "content" ELSE "empty"

\* YouTubeMonitor(...) or YouTubeMonitorPubSub(...) is called with the
\* state files in some condition.
Construct(class, files) ==
    /\ boot.pc = "off"
    /\ boot' = [NotConstructed EXCEPT !.pc = "load_processed_videos",
                                      !.class = class,
                                      !.files = files]
    /\ UNCHANGED <<pipelineVars, stageVars, fanVars, cacheVars, tableVars,
                   exitVars, feedVars, proxyVars>>

\* load_processed_videos: unguarded in YouTubeMonitor, guarded in
\* YouTubeMonitorPubSub, whose constructor loads nothing else.
LoadProcessedVideos ==
    /\ boot.pc = "load_processed_videos"
    /\ LET f == "processed_videos.json"
           result == IF boot.class = "YouTubeMonitor"
                     THEN LoadUnguarded(boot.files[f])
                     ELSE LoadGuarded(boot.files[f])
       IN  boot' = [boot EXCEPT
                      !.loaded[f] = result,
                      !.pc = IF result = "raised" THEN "failed"
                             ELSE IF boot.class = "YouTubeMonitor"
                             THEN "load_scrapetube_cache"
                             ELSE "constructed"]
    /\ UNCHANGED <<pipelineVars, stageVars, fanVars, cacheVars, tableVars,
                   exitVars, feedVars, proxyVars>>

LoadScrapetubeCache ==
    /\ boot.pc = "load_scrapetube_cache"
    /\ LET f == "scrapetube_cache.pkl"
       IN  boot' = [boot EXCEPT !.loaded[f] = LoadGuarded(boot.files[f]),
                                !.pc = "load_video_hash_cache"]
    /\ UNCHANGED <<pipelineVars, stageVars, fanVars, cacheVars, tableVars,
                   exitVars, feedVars, proxyVars>>

LoadVideoHashCache ==
    /\ boot.pc = "load_video_hash_cache"
    /\ LET f == "video_hash_cache.pkl"
       IN  boot' = [boot EXCEPT !.loaded[f] = LoadGuarded(boot.files[f]),
                                !.pc = "constructed"]
    /\ UNCHANGED <<pipelineVars, stageVars, fanVars, cacheVars, tableVars,
                   exitVars, feedVars, proxyVars>>

\* The state files a class loads in its constructor.
FilesOf(class) ==
    IF class = "YouTubeMonitor" THEN StateFiles
    ELSE {"processed_videos.json"}

BootNext ==
    \/ \E class \in MonitorClasses, files \in [StateFiles -> FileConditions] :
           Construct(class, files)
    \/ LoadProcessedVideos
    \/ LoadScrapetubeCache
    \/ LoadVideoHashCache

\* Construction of a monitor over every condition of its state files.
BootSpec == InitJoin /\ [][BootNext]_vars

(* -------------------------- the channel table ------------------------- *)
ChannelNames == {"a", "b"}

\* A channel entry as add_channel builds it.
Channel(name, channel_id) == [name |-> name, channel_id |-> channel_id]

\* video.get('channel_id'): an id, or nothing (0).
EventChannelIds == ChannelIds \cup {0}

\* Lines 261-268 and 284-291: the first configured channel, or None.
DefaultChannel(table) == IF table # <<>> THEN table[1] ELSE NoChannel

\* find_channel_for_video: the first channel with the video's channel id,
\* else the default.
FindChannel(table, video_channel_id) ==
    LET matches == {i \in 1..Len(table) :
                       table[i].channel_id = video_channel_id}
    IN  IF video_channel_id = 0 \/ matches = {} THEN DefaultChannel(table)
        ELSE table[CHOOSE i \in matches : \A j \in matches : i <= j]

FindChannelForVideo(video_channel_id) ==
    /\ table_pc = "idle"
    /\ found' = [channel_id |-> video_channel_id,
                 returned |-> FindChannel(config_channels, video_channel_id)]
    /\ UNCHANGED <<pipelineVars, stageVars, fanVars, cacheVars, bootVars,
                   config_channels, config_file, table_pc, exitVars, feedVars, proxyVars>>

\* [ch for ch in channels if keep(ch)]
RECURSIVE Filter(_, _)
Filter(table, dropped) ==
    IF table = <<>> THEN <<>>
    ELSE IF table[1] \in dropped THEN Filter(Tail(table), dropped)
    ELSE <<table[1]>> \o Filter(Tail(table), dropped)

\* The table after the GUI's edit of the first channel called current_name.
Edited(table, current_name, channel) ==
    LET named == {i \in 1..Len(table) : table[i].name = current_name}
    IN  IF named = {} THEN table
        ELSE [table EXCEPT ![CHOOSE i \in named : \A j \in named : i <= j]
                               = channel]

\* The table is changed in memory; the write of the file comes next.
ChangeTable(table) ==
    /\ table_pc = "idle"
    /\ config_channels' = table
    /\ table_pc' = "save"
    /\ UNCHANGED <<pipelineVars, stageVars, fanVars, cacheVars, bootVars,
                   config_file, found, exitVars, feedVars, proxyVars>>

\* add_channel (push path), main --add-channel, the GUI's save_channel:
\* the entry is appended.
AddChannel(name, channel_id) ==
    /\ Len(config_channels) < MaxTable
    /\ ChangeTable(Append(config_channels, Channel(name, channel_id)))

\* remove_channel of the push path: every entry with the channel id goes.
RemoveChannel(channel_id) ==
    /\ channel_id \in ChannelIds
    /\ ChangeTable(Filter(config_channels,
                          {Channel(n, channel_id) : n \in ChannelNames}))

\* main --remove-channel and the GUI's remove_channel: every entry with
\* the name goes.
RemoveChannelByName(name) ==
    /\ name \in ChannelNames
    /\ ChangeTable(Filter(config_channels,
                          {Channel(name, c) : c \in ChannelIds}))

\* The GUI's edit_channel: name and channel id of one entry are replaced.
EditChannel(current_name, name, channel_id) ==
    /\ current_name \in {config_channels[i].name :
                            i \in 1..Len(config_channels)}
    /\ ChangeTable(Edited(config_channels, current_name,
                          Channel(name, channel_id)))

\* with open("monitor_config.json", 'w'): the file is truncated.
OpenConfigFile ==
    /\ table_pc = "save"
    /\ config_file' = [channels |-> <<>>, complete |-> FALSE]
    /\ table_pc' = "dump"
    /\ UNCHANGED <<pipelineVars, stageVars, fanVars, cacheVars, bootVars,
                   config_channels, found, exitVars, feedVars, proxyVars>>

\* json.dump(config, f) and the end of the with block.
DumpConfig ==
    /\ table_pc = "dump"
    /\ config_file' = [channels |-> config_channels, complete |-> TRUE]
    /\ table_pc' = "idle"
    /\ UNCHANGED <<pipelineVars, stageVars, fanVars, cacheVars, bootVars,
                   config_channels, found, exitVars, feedVars, proxyVars>>

\* The process stops in the middle of an operation on the table.
StopProcess ==
    /\ table_pc \in {"save", "dump"}
    /\ table_pc' = IF table_pc = "save" THEN "stopped before the write"
                   ELSE "stopped in the write"
    /\ UNCHANGED <<pipelineVars, stageVars, fanVars, cacheVars, bootVars,
                   config_channels, config_file, found, exitVars, feedVars, proxyVars>>

TableNext ==
    \/ \E c \in EventChannelIds : FindChannelForVideo(c)
    \/ \E n \in ChannelNames, c \in ChannelIds : AddChannel(n, c)
    \/ \E c \in ChannelIds : RemoveChannel(c)
    \/ \E n \in ChannelNames : RemoveChannelByName(n)
    \/ \E cur \in ChannelNames, n \in ChannelNames, c \in ChannelIds :
           EditChannel(cur, n, c)
    \/ OpenConfigFile
    \/ DumpConfig
    \/ StopProcess

\* The channel table under add, remove, edit and routing.
TableSpec == InitJoin /\ [][TableNext]_vars

(* ------------------------------ properties --------------------------- *)
WorkersRunning(r) == \E i \in DOMAIN workers[r] : workers[r][i] = "running"

\* A step that delivers one notification to the callback.
Delivery == notifs' # notifs

C2_DroppedWhileProcessing ==
    /\ [](Cardinality(ActivePushJobs) \in {0, 1})
    /\ [][(Delivery /\ processing_video) =>
             /\ UNCHANGED <<pc, vid, workers, orig, started, completed>>
             /\ processing_video'
             /\ (auto_upload /\ processed_videos' # processed_videos
                    => last'.outcome = "dropped")]_vars

\* An event was dropped at the gate while another handler's job is running.
C2_Witness ==
    /\ last.outcome = "dropped"
    /\ processing_video
    /\ \E r \in PushRunners : InJob(r) /\ r # last.runner /\ vid[r] # last.video

(* C3 *)
\* C3 as stated: once a second delivery of an event has been skipped as
\* already processed, exactly one pipeline job was started for its video.
C3_Original ==
    (last.runner[1] = "push" /\ last.outcome = "skipped")
        => started[<<"push", last.video>>] = 1

\* C3, amended: however often an event is delivered, at most one pipeline
\* job is started for its video (none if auto_upload is off, the URL is
\* missing, or the first delivery was dropped at the gate); its id enters
\* the dedup set at the first delivery and never leaves it; and a delivery
\* of an id already in the set changes nothing.
C3_AtMostOneJob ==
    /\ [](\A v \in Videos : started[<<"push", v>>] <= 1)
    /\ [][processed_videos \subseteq processed_videos']_vars
    /\ [][Delivery =>
             /\ PushKey(last'.video) \in processed_videos'
             /\ (PushKey(last'.video) \in processed_videos =>
                    /\ last'.outcome = "skipped"
                    /\ UNCHANGED <<pc, vid, workers, orig, started, completed,
                                   processed_videos, processed_videos_file,
                                   processing_video>>)]_vars

\* The second delivery of an event was skipped after the first started the
\* one job for its video.
C3_Witness ==
    /\ last.runner[1] = "push"
    /\ last.outcome = "skipped"
    /\ started[<<"push", last.video>>] = 1
    /\ notifs >= 2

(* C4 *)
\* C4 as stated: after any sequence of poll cycles and notifications, no
\* download is started for an item whose hash is in the processed set.
C4_Original ==
    [][\A p \in Paths, v \in Videos :
          started'[<<p, v>>] > started[<<p, v>>]
              => ~IsVideoProcessed(VideoHash(v))]_vars

(* C5 *)
\* C5 as stated: of two polling threads that see the same unprocessed item,
\* at most one passes the is-processed check, so no two threads are in a job
\* for the same item.
C5_Original ==
    \A r1, r2 \in PollRunners :
        (r1 # r2 /\ InJob(r1) /\ InJob(r2)) => vid[r1] # vid[r2]

(* C6 *)
\* C6 as stated: an item delivered by a push notification and by the polling
\* path is downloaded by one of the two paths only.
C6_Original ==
    \A v \in Videos : ~(started[<<"push", v>>] >= 1 /\ started[<<"poll", v>>] >= 1)

(* C7 *)
\* C7 as stated: after a job ended in a failed download or a rejected
\* duration, its item is not marked processed.
C7_Original ==
    (last.runner[1] = "push" /\ last.outcome \in {"dlfail", "exc", "rejected"})
        => ~AlreadyProcessed(last.video)

(* C8 *)
\* C8: while an upload worker of a job is running, the job does not end, its
\* original download is not deleted and, on the push path, the in-flight
\* flag stays set; and a hash enters the hash set only in the step in which
\* a polling thread, none of whose workers is running, ends its job.
C8_CompletionAfterJoin ==
    /\ [][\A r \in Runners : WorkersRunning(r) =>
             /\ pc'[r] = "join"
             /\ orig'[r] = orig[r]
             /\ (r \in PushRunners => processing_video')]_vars
    /\ [][video_hash_cache' # video_hash_cache =>
             \E r \in PollRunners :
                 /\ pc[r] = "join" /\ pc'[r] = "done"
                 /\ ~WorkersRunning(r)
                 /\ video_hash_cache' = video_hash_cache \cup {VideoHash(vid[r])}]_vars

\* A job has completed, original deleted, after an upload fan-out of several
\* workers one of which succeeded, while another job is still uploading.
C8_Witness ==
    /\ last.outcome = "uploaded"
    /\ pc[last.runner] \in {"idle", "done"}
    /\ ~orig[last.runner]
    /\ completed[<<last.runner[1], last.video>>] = 1
    /\ \E r \in Runners : WorkersRunning(r) /\ Len(workers[r]) = MaxParts

C10_FlagCleared ==
    /\ processing_video ~> ~processing_video
    /\ [][(Delivery /\ processing_video) => processing_video']_vars

\* The flag is clear after a job ended in an exception.
C10_Witness ==
    /\ ~processing_video
    /\ last.runner[1] = "push"
    /\ last.outcome = "exc"
    /\ started[<<"push", last.video>>] = 1

(* ------------------ segmentation and the duration policy -------------- *)
\* ffmpeg_split_video or split_video has returned from the segmentation
\* with at least one part.
Emitted == sv.pc \in {"fanout", "done"} /\ sv.output_files # <<>>

Length(p) == p.end - p.start

\* split_video got a file past the duration policy and its extension.
PastPolicy ==
    /\ sv.caller = "split_video"
    /\ sv.pc \in {"split", "fanout", "done"}
    /\ sv.result \notin {"rejected", "extendfail"}

\* C11: every segment ffmpeg_split_video emits is at least 3 s and at most
\* max_duration seconds long, for every duration, limit and part count.
C11_SegmentLengths ==
    \A k \in 1..Len(sv.output_files) :
        /\ Length(sv.output_files[k]) >= 3
        /\ Length(sv.output_files[k]) <= sv.max_duration

\* A file of exactly 3 s was split into one segment of 3 s.
C11_Witness ==
    /\ Emitted
    /\ sv.duration = 3
    /\ Len(sv.output_files) = 1
    /\ Length(sv.output_files[1]) = 3
    /\ sv.max_duration = DefaultMaxDuration

\* C12 as stated: the emitted segments are ordered and contiguous, the
\* first starting at 0 and each next one where the previous emitted one
\* ends, also when the extraction of a segment failed.
C12_Original ==
    Emitted =>
        /\ sv.output_files[1].start = 0
        /\ \A k \in 2..Len(sv.output_files) :
               sv.output_files[k].start = sv.output_files[k - 1].end
        /\ \A k \in 1..Len(sv.output_files) :
               sv.output_files[k].start < sv.output_files[k].end

\* C13 as stated: the number of segments is at most
\* min(num_parts, floor(duration / max_duration)).
C13_Original ==
    Emitted =>
        Len(sv.output_files)
            <= Min(sv.num_parts, sv.duration \div sv.max_duration)

\* C13: the number of segments is at most min(num_parts, floor(duration /
\* max_duration)), raised to 1 for a file of at least 3 s.
C13_SegmentCount ==
    Emitted =>
        Len(sv.output_files) <=
            IF sv.duration >= 3
            THEN Max(1, Min(sv.num_parts, sv.duration \div sv.max_duration))
            ELSE Min(sv.num_parts, sv.duration \div sv.max_duration)

\* A file shorter than one part was split into one segment.
C13_Witness ==
    /\ Emitted
    /\ sv.duration < sv.max_duration
    /\ sv.num_parts >= 1
    /\ Len(sv.output_files) = 1

\* C14 as stated: a file of 300 s split with max_duration 113 and num_parts
\* 3, every extraction succeeding, gives [0,113), [113,226) and [226,300).
C14_Original ==
    (/\ sv.pc = "done"
     /\ sv.caller = "direct"
     /\ sv.duration = 300
     /\ sv.max_duration = 113
     /\ sv.num_parts = 3
     /\ sv.failed = {})
    => sv.output_files = <<Part(0, 0, 113), Part(1, 113, 226), Part(2, 226, 300)>>

\* C15 as stated: an accepted file shorter than 60 s is extended to at least
\* 63 s, and never to less than its own duration.
C15_Original ==
    (PastPolicy /\ sv.video_duration < 60)
    => (sv.duration >= 63 /\ sv.duration >= sv.video_duration)

\* C16: with max_duration 113 and num_parts at least 1, a file the policy
\* accepted, whose extension (if any) and whose extraction succeeded, gives
\* exactly one segment from 0 to min(D', 113), D' being the duration after
\* extension; a file of 45 s is extended to 63 s and gives [0, 63).
C16_OneSegment ==
    (/\ PastPolicy
     /\ sv.pc \in {"fanout", "done"}
     /\ sv.max_duration = 113
     /\ sv.num_parts >= 1
     /\ 1 \notin sv.failed)
    => /\ sv.output_files = <<Part(0, 0, Min(sv.duration, 113))>>
       /\ sv.video_duration = 45 => sv.duration = 63

\* A file of 45 s went through split_video and came out as one part
\* spanning 63 s, handed to one upload worker.
C16_Witness ==
    /\ sv.caller = "split_video"
    /\ sv.result = "parts"
    /\ sv.video_duration = 45
    /\ sv.num_parts = 3
    /\ sv.output_files = <<Part(0, 0, 63)>>
    /\ sv.upload_workers = 1

C18_Original ==
    [][\A r \in PollRunners :
         (last.runner = r /\ last.outcome = "rejected")
         => ~(pc'[r] = "download" /\ vid'[r] = last.video)]_vars

(* --------------------------- download_video --------------------------- *)
\* C19 as stated: when download_video returns None, every primary attempt
\* having failed, the fallback was attempted exactly once.
C19_Original == dl.returned = "None" => dl.fallbacks = 1

\* C20 as stated: when download_video returns None, no file exists at
\* output_path.
C20_Original == dl.returned = "None" => dl.file = "none"

(* ---------------------------- upload fan-out -------------------------- *)
FanOutReturned == up.pc = "returned" /\ auto_upload

\* C21: in one job no part gets more than one call of upload_to_tiktok, and
\* when the fan-out has returned every part whose file had content got
\* exactly one and every other part none, however the workers interleave.
C21_OneAttempt ==
    \A i \in DOMAIN up.parts :
        /\ up.parts[i].attempts <= 1
        /\ FanOutReturned =>
               up.parts[i].attempts = IF up.parts[i].made = "data" THEN 1 ELSE 0

\* The fan-out returned after the upload of part 1 failed and the upload of
\* part 2 succeeded, each attempted once.
C21_Witness ==
    /\ FanOutReturned
    /\ Len(up.parts) = 2
    /\ up.parts[1].outcome = "failed" /\ up.parts[1].attempts = 1
    /\ up.parts[2].outcome = "uploaded" /\ up.parts[2].attempts = 1

C23_HitIffFresh ==
    [][cached_videos' # cached_videos =>
         LET r == cached_videos'
             hits == {i \in 1..Len(scrapetube_cache) :
                         /\ scrapetube_cache[i].key = r.key
                         /\ now - scrapetube_cache[i].timestamp < r.max_age}
         IN  IF hits = {} THEN ~r.result.hit
             ELSE /\ r.result.hit
                  /\ \E i \in hits :
                         r.result.videos = scrapetube_cache[i].videos]_vars

\* A lookup with max_age 300 returned the videos of an entry 299 s old.
C23_Witness ==
    /\ cached_videos =
           [key |-> 1, max_age |-> 300, result |-> Cached(<<"v">>)]
    /\ now = 300
    /\ 1 \in KeysOf(scrapetube_cache)
    /\ EntryOf(scrapetube_cache, 1).timestamp = 1
    /\ put_pc[1] = NoPut

\* C24 as stated: when a put is complete the cache holds at most
\* max_cache_size entries.
C24_Original ==
    [][\A t \in PutThreads :
         (put_pc[t].pc = "inserted" /\ put_pc'[t].pc = "idle")
         => Len(scrapetube_cache') <= max_cache_size]_vars

\* C25 as stated: a put on a key that is already in the cache moves the
\* key to the most-recent end.
C25_Original ==
    [][\A t \in PutThreads :
         (/\ put_pc[t].pc = "fetch"
          /\ put_pc'[t].pc = "inserted"
          /\ put_pc[t].key \in KeysOf(scrapetube_cache))
         => scrapetube_cache'[Len(scrapetube_cache')].key = put_pc[t].key]_vars

(* ------------------------------- startup ------------------------------ *)
\* C26 as stated: construction never fails on a missing or corrupt state
\* file, and a constructed monitor holds empty state for every such file.
C26_Original ==
    /\ boot.pc # "failed"
    /\ boot.pc = "constructed"
       => \A f \in FilesOf(boot.class) :
             boot.files[f] \in {"missing", "corrupt"}
             => boot.loaded[f] = "empty"

(* ----------------------------- channel table -------------------------- *)
\* C27: find_channel_for_video returns the first configured channel whose
\* channel_id is the video's; when none matches, or the video has no
\* channel id, the first configured channel; None only for an empty table.
C27_Routing ==
    [][found' # found =>
         LET r == found'
             matches == {i \in 1..Len(config_channels) :
                            config_channels[i].channel_id = r.channel_id}
         IN  IF r.channel_id # 0 /\ matches # {}
             THEN \E i \in matches :
                     /\ r.returned = config_channels[i]
                     /\ \A j \in matches : i <= j
             ELSE IF Len(config_channels) > 0
             THEN r.returned = config_channels[1]
             ELSE r.returned = NoChannel]_vars

\* A video of channel 2 was routed to the first configured channel, which
\* has id 1, no configured channel having id 2.
C27_Witness ==
    /\ found.channel_id = 2
    /\ Len(config_channels) = 2
    /\ \A i \in 1..2 : config_channels[i].channel_id = 1
    /\ found.returned = config_channels[1]

\* C28 as stated: no two configured channels have the same channel_id.
C28_Original ==
    \A i, j \in 1..Len(config_channels) :
        i # j => config_channels[i].channel_id # config_channels[j].channel_id

\* C29 as stated: when the process stops during an operation on the table,
\* monitor_config.json holds a complete table, the old or the new one.
C29_Original ==
    table_pc \in {"stopped before the write", "stopped in the write"}
    => config_file.complete

(* ------------------------------- shutdown ----------------------------- *)
\* C30 as stated: when the polling monitor exits on an interrupt,
\* video_hash_cache.pkl holds the dedup set as it was in memory.
C30_Original ==
    at_exit.exited
    => at_exit.video_hash_cache_file = at_exit.video_hash_cache

(* ---------------------------- the polling loop ------------------------ *)
\* The outcomes of a check that are a failure or an exception of a stage.
StageFailures == {"dlfail", "exc", "rejected", "splitfail"}

\* C31: when a stage of one channel's check fails or raises in cycle k, the
\* checks of all channels of that cycle end and cycle k + 1 starts.
C31_LoopGoesOn ==
    \A k \in 1..(MaxCycles - 1) :
        (cycle = k /\ last.runner[1] = "poll" /\ last.outcome \in StageFailures)
        ~> (cycle = k + 1)

\* The second cycle has started after a check of the first ended in an
\* exception.
C31_Witness ==
    /\ cycle = 2
    /\ \A r \in PollRunners : pc[r] = "check"
    /\ last.runner[1] = "poll"
    /\ last.outcome = "exc"

(* ------------------------- failed segmentation ------------------------ *)
\* C32 as stated: when the extraction of a segment fails, split_video ends
\* in a segmentation failure, returns no segment and starts no upload.
C32_Original ==
    (/\ sv.pc = "done"
     /\ sv.caller = "split_video"
     /\ sv.failed \cap Attempted(sv.duration, sv.num_parts, sv.max_duration)
            # {})
    => /\ sv.result = "splitfail"
       /\ sv.output_files = <<>>
       /\ sv.upload_workers = 0

(* ------------------------------ the feed ------------------------------ *)
\* C33 as stated: a check of the channel makes an event of every video
\* published since the check before it whose hash is not in the dedup
\* record, a newer video in the same interval or not.
C33_Original ==
    [][poll'.count # poll.count =>
         \A k \in 1..poll.since :
             ~IsVideoProcessed(VideoHash(FeedVideo(feed[k])))
             => feed[k] \in poll'.new_videos]_vars

(* -------------------------- the order of stages ----------------------- *)
\* C34: split_video is entered only after download_video returned a path,
\* the segmentation only after the duration policy accepted the file, and
\* upload workers are started only for a non-empty list of segments.
C34_StageOrder ==
    /\ (sv.caller = "split_video" /\ sv.pc # "idle")
       => dl.returned = "path" /\ dl.file = "data"
    /\ (sv.caller = "split_video" /\ sv.pc \in {"split", "fanout"})
       => CheckVideoDurationRequirements(sv.video_duration)
    /\ sv.upload_workers > 0
       => /\ dl.returned = "path"
          /\ CheckVideoDurationRequirements(sv.video_duration)
          /\ sv.output_files # <<>>
          /\ sv.upload_workers = Len(sv.output_files)

\* Two upload workers were started for the two segments of a file that the
\* second download attempt delivered.
C34_Witness ==
    /\ sv.upload_workers = 2
    /\ Len(sv.output_files) = 2
    /\ dl.attempt = 2
    /\ dl.returned = "path"

\* C35 as stated: when split_video has returned, no file is left at the
\* path of the extended video and the downloaded file is still there.
C35_Original ==
    (sv.pc = "done" /\ sv.caller = "split_video")
    => sv.extended_file = "none" /\ dl.file = "data"

(* ------------------------------- cleanup ------------------------------ *)
\* C36 as stated: a runner that is not in a job has no downloaded original
\* on disk, whatever its last job came to, on either path.
C36_Original == \A r \in Runners : ~InJob(r) => ~orig[r]

(* ---------------------------- dropped events -------------------------- *)
\* C37 as stated: the delivery of an event that is dropped because a job is
\* in flight leaves the dedup set of the push path as it was.
C37_Original ==
    [][(Delivery /\ last'.outcome = "dropped")
          => processed_videos' = processed_videos]_vars

(* ------------------------------- restart ------------------------------ *)
\* C38 as stated: is_video_processed is true of every video whose job on the
\* polling path completed, also after a restart.
C38_Original ==
    \A v \in Videos :
        completed[<<"poll", v>>] > 0 => IsVideoProcessed(VideoHash(v))

(* ------------------------------- the proxy ---------------------------- *)
\* C39 as stated: every upload of a job whose channel has a proxy is made
\* through that proxy, whatever its four strings are.
C39_Original ==
    px.uploads > 0
    => /\ px.proxy_url.set
       /\ px.proxy_url.ip = px.proxy.ip
       /\ px.proxy_url.port = px.proxy.port
       /\ px.proxy_url.username = px.proxy.username
       /\ px.proxy_url.password = px.proxy.password

(* ------------------------------ auto_upload --------------------------- *)
\* C40: with auto_upload off no upload worker is ever started and no push
\* job is ever begun: every part of every runner is kept as it was made.
C40_NoUploadWithoutAutoUpload ==
    ~auto_upload =>
        /\ \A r \in Runners : \A i \in DOMAIN workers[r] :
               workers[r][i] = "kept"
        /\ \A r \in PushRunners : ~InJob(r)

\* With auto_upload off a notification was delivered and a polling thread
\* stands after split_video with its parts made and no worker for them.
C40_Witness ==
    /\ ~auto_upload
    /\ notifs > 0
    /\ \E r \in PollRunners :
           /\ pc[r] = "join"
           /\ workers[r] # <<>>
           /\ \A i \in DOMAIN workers[r] : workers[r][i] = "kept"

=============================================================================
